---- MODULE Spec2Model ----
(***************************************************************************)
(* A model of stonks (src/src/main.rs): the four signal calculations, the  *)
(* statistics record built from them, the history fetcher and the          *)
(* two-stage fan-out/join orchestrator with its report.                    *)
(*                                                                         *)
(* f64 values are modelled as pairs <<n, d>>: a finite value is the        *)
(* reduced fraction n/d with d > 0 and |n/d| <= f64::MAX, and d = 0 holds  *)
(* the three non-finite values (+inf, -inf, NaN).  Arithmetic follows      *)
(* IEEE 754 on the non-finite values and on overflow; the rounding of      *)
(* finite results and the sign of zero are not represented.                *)
(***************************************************************************)
EXTENDS Integers, Sequences, FiniteSets

VARIABLES
    series,           \* the slice handed to a signal calculation
    call,             \* the last signal call made on it and what it returned
    symbols,          \* main: opts.symbols.split(",")
    pc,               \* main: where the orchestrator stands
    fetch_tasks,      \* per symbol: the fetch future's state
    fetch_order,      \* indices of the fetch futures, in completion order
    stock_histories,  \* main: the first join_all's output
    stats_tasks,      \* per survivor: the statistics future's state
    stats_order,      \* indices of the statistics futures, in completion order
    stock_stats,      \* main: the second join_all's output
    stdout,           \* the lines printed so far
    exit              \* how main ended

vars == <<series, call, symbols, pc, fetch_tasks, fetch_order,
          stock_histories, stats_tasks, stats_order, stock_stats, stdout, exit>>

signalVars == <<series, call>>
mainVars == <<symbols, pc, fetch_tasks, fetch_order, stock_histories,
              stats_tasks, stats_order, stock_stats, stdout, exit>>

---------------------------------------------------------------------------
\* Bounds of the model.

MaxLen == 3          \* longest exhaustively enumerated series
MaxWindow == 4       \* largest window size tried on WindowedSMA
MaxSymbols == 2      \* longest symbol list
MaxQuotes == 2       \* most quotes in an enumerated provider answer

---------------------------------------------------------------------------
\* f64.

\* The magnitude of f64::MAX at the scale of the model: the largest finite
\* value; a finite result beyond it overflows to an infinity.
F64_MAX_MAG == 1000

Abs(x) == IF x < 0 THEN -x ELSE x

Sgn(x) == IF x < 0 THEN -1 ELSE 1

RECURSIVE Gcd(_, _)
Gcd(a, b) == IF b = 0 THEN a ELSE Gcd(b, a % b)

NaN == <<0, 0>>
PosInf == <<1, 0>>
NegInf == <<-1, 0>>
Fin(n) == <<n, 1>>
Zero == Fin(0)
F64_MAX == Fin(F64_MAX_MAG)
F64_MIN == Fin(-F64_MAX_MAG)

IsNaN(a) == a = NaN
IsInf(a) == a = PosInf \/ a = NegInf
IsFinite(a) == a[2] > 0

\* The f64 nearest to n/d (d # 0): the reduced fraction, or an infinity when
\* the magnitude exceeds f64::MAX.
Round(n, d) ==
    LET s == Sgn(d)
        g == Gcd(Abs(n), Abs(d))
        nn == (s * n) \div g
        dd == Abs(d) \div g
    IN  IF Abs(nn) > F64_MAX_MAG * dd
        THEN (IF nn > 0 THEN PosInf ELSE NegInf)
        ELSE <<nn, dd>>

FNeg(a) == <<-a[1], a[2]>>

FAdd(a, b) ==
    IF IsNaN(a) \/ IsNaN(b) THEN NaN
    ELSE IF IsInf(a) /\ IsInf(b) THEN (IF a = b THEN a ELSE NaN)
    ELSE IF IsInf(a) THEN a
    ELSE IF IsInf(b) THEN b
    ELSE Round(a[1] * b[2] + b[1] * a[2], a[2] * b[2])

FSub(a, b) == FAdd(a, FNeg(b))

FDiv(a, b) ==
    IF IsNaN(a) \/ IsNaN(b) THEN NaN
    ELSE IF IsInf(a) THEN (IF IsInf(b) THEN NaN ELSE <<a[1] * Sgn(b[1]), 0>>)
    ELSE IF IsInf(b) THEN Zero
    ELSE IF b[1] = 0 THEN (IF a[1] = 0 THEN NaN ELSE <<Sgn(a[1]), 0>>)
    ELSE Round(a[1] * b[2], a[2] * b[1])

\* a == b and a < b on f64: both are false when an operand is NaN.
FEq(a, b) == ~IsNaN(a) /\ ~IsNaN(b) /\ a = b

FLt(a, b) ==
    /\ ~IsNaN(a) /\ ~IsNaN(b) /\ a # b
    /\ \/ a = NegInf
       \/ b = PosInf
       \/ IsFinite(a) /\ IsFinite(b) /\ a[1] * b[2] < b[1] * a[2]

FLe(a, b) == FLt(a, b) \/ FEq(a, b)

\* f64::min and f64::max: a NaN operand is ignored.
FMin(a, b) == IF IsNaN(a) THEN b ELSE IF IsNaN(b) THEN a ELSE IF FLt(b, a) THEN b ELSE a

FMax(a, b) == IF IsNaN(a) THEN b ELSE IF IsNaN(b) THEN a ELSE IF FLt(a, b) THEN b ELSE a

\* Option<T>.
None == <<>>
Some(v) == <<v>>
IsSome(o) == o # None
Unwrap(o) == o[1]

\* Iterator::fold over a slice, left to right.
RECURSIVE FoldMin(_, _)
FoldMin(acc, s) == IF s = <<>> THEN acc ELSE FoldMin(FMin(acc, Head(s)), Tail(s))

RECURSIVE FoldMax(_, _)
FoldMax(acc, s) == IF s = <<>> THEN acc ELSE FoldMax(FMax(acc, Head(s)), Tail(s))

RECURSIVE FoldSum(_, _)
FoldSum(acc, s) == IF s = <<>> THEN acc ELSE FoldSum(FAdd(acc, Head(s)), Tail(s))

\* slice::windows(size), size >= 1: every contiguous sub-slice of that length.
Windows(s, size) ==
    [i \in 1..(IF Len(s) >= size THEN Len(s) - size + 1 ELSE 0) |->
        SubSeq(s, i, i + size - 1)]

---------------------------------------------------------------------------
\* The signal calculations.

MinPrice_calculate(s) ==
    IF s = <<>> THEN None ELSE Some(FoldMin(F64_MAX, s))

MaxPrice_calculate(s) ==
    IF s = <<>> THEN None ELSE Some(FoldMax(F64_MIN, s))

\* PriceDiff::calculate without the guard on a zero first element.
PriceDiff_calculate_NoZeroGuard(s) ==
    IF s = <<>> THEN None
    ELSE LET abs_diff == FSub(s[Len(s)], s[1])
         IN  Some(<<abs_diff, FDiv(abs_diff, s[1])>>)

PriceDiff_calculate(s) ==
    IF s = <<>> THEN None
    ELSE LET first == s[1]
             last == s[Len(s)]
             abs_diff == FSub(last, first)
             pct_diff == IF FEq(first, Zero) THEN abs_diff ELSE FDiv(abs_diff, first)
         IN  Some(<<abs_diff, pct_diff>>)

\* WindowedSMA::calculate accepting a window of one.
WindowedSMA_calculate_WindowOfOne(window_size, s) ==
    IF s # <<>> /\ window_size > 0
    THEN Some([i \in DOMAIN Windows(s, window_size) |->
                 LET w == Windows(s, window_size)[i]
                 IN  FDiv(FoldSum(Zero, w), Fin(Len(w)))])
    ELSE None

\* WindowedSMA::calculate dividing by the window size less one.
WindowedSMA_calculate_WrongDivisor(window_size, s) ==
    IF s # <<>> /\ window_size > 1
    THEN Some([i \in DOMAIN Windows(s, window_size) |->
                 LET w == Windows(s, window_size)[i]
                 IN  FDiv(FoldSum(Zero, w), Fin(Len(w) - 1))])
    ELSE None

WindowedSMA_calculate(window_size, s) ==
    IF s # <<>> /\ window_size > 1
    THEN Some([i \in DOMAIN Windows(s, window_size) |->
                 LET w == Windows(s, window_size)[i]
                 IN  FDiv(FoldSum(Zero, w), Fin(Len(w)))])
    ELSE None

---------------------------------------------------------------------------
\* StockStats::new.

WINDOW_SIZE == 30

\* A call either unwinds with a panic or returns a value.
Panicked == [panicked |-> TRUE]
Returned(v) == [panicked |-> FALSE, value |-> v]

\* StockStats::new taking the first moving average instead of the last.
StockStats_new_FirstAverage(symbol, closes) ==
    LET windowed == WindowedSMA_calculate(WINDOW_SIZE, closes)
        sma == IF IsSome(windowed) THEN Unwrap(windowed) ELSE <<>>
    IN  IF closes = <<>> THEN Panicked
        ELSE Returned([symbol |-> symbol,
                       last_price |-> closes[Len(closes)],
                       pct_change |-> Unwrap(PriceDiff_calculate(closes))[2],
                       period_min |-> Unwrap(MinPrice_calculate(closes)),
                       period_max |-> Unwrap(MaxPrice_calculate(closes)),
                       thirty_day_avg |-> IF sma = <<>> THEN Zero ELSE sma[1]])

StockStats_new(symbol, closes) ==
    LET last_price == IF closes = <<>> THEN Zero ELSE closes[Len(closes)]
        price_diff == PriceDiff_calculate(closes)
        period_min == MinPrice_calculate(closes)
        period_max == MaxPrice_calculate(closes)
        windowed == WindowedSMA_calculate(WINDOW_SIZE, closes)
        sma == IF IsSome(windowed) THEN Unwrap(windowed) ELSE <<>>
        thirty_day_avg == IF sma = <<>> THEN Zero ELSE sma[Len(sma)]
    IN  IF ~IsSome(price_diff) THEN Panicked
        ELSE IF ~IsSome(period_min) THEN Panicked
        ELSE IF ~IsSome(period_max) THEN Panicked
        ELSE Returned([symbol |-> symbol,
                       last_price |-> last_price,
                       pct_change |-> Unwrap(price_diff)[2],
                       period_min |-> Unwrap(period_min),
                       period_max |-> Unwrap(period_max),
                       thirty_day_avg |-> thirty_day_avg])

---------------------------------------------------------------------------
\* The signal calculations applied to bounded inputs.

FloatVals == {Fin(-2), Zero, Fin(1), Fin(3), F64_MAX, PosInf, NegInf, NaN}

RECURSIVE SeqsUpTo(_, _)
SeqsUpTo(S, n) ==
    IF n = 0 THEN {<<>>}
    ELSE LET shorter == SeqsUpTo(S, n - 1)
         IN  shorter \cup {Append(s, v) : s \in {t \in shorter : Len(t) = n - 1}, v \in S}

\* Series around the thirty-point window of StockStats::new.
LongLens == (WINDOW_SIZE - 1)..(WINDOW_SIZE + 1)

LongSeries ==
    {[i \in 1..n |-> Fin((i * k) % 7)] : n \in LongLens, k \in 1..2}
    \cup {[i \in 1..n |-> IF i = 1 THEN v ELSE Fin(i % 5)] :
            n \in LongLens, v \in {F64_MAX, PosInf, NaN}}

SeriesInputs == SeqsUpTo(FloatVals, MaxLen) \cup LongSeries

NoCall == [fn |-> "none"]

NoRun ==
    /\ symbols = <<>>
    /\ pc = "none"
    /\ fetch_tasks = <<>>
    /\ fetch_order = <<>>
    /\ stock_histories = <<>>
    /\ stats_tasks = <<>>
    /\ stats_order = <<>>
    /\ stock_stats = <<>>
    /\ stdout = <<>>
    /\ exit = "none"

SignalInit ==
    /\ series \in SeriesInputs
    /\ call = NoCall
    /\ NoRun

CallMinPrice ==
    /\ call' = [fn |-> "MinPrice", result |-> MinPrice_calculate(series)]
    /\ UNCHANGED <<series, mainVars>>

CallMaxPrice ==
    /\ call' = [fn |-> "MaxPrice", result |-> MaxPrice_calculate(series)]
    /\ UNCHANGED <<series, mainVars>>

CallPriceDiff ==
    /\ call' = [fn |-> "PriceDiff", result |-> PriceDiff_calculate(series)]
    /\ UNCHANGED <<series, mainVars>>

CallWindowedSMA ==
    /\ \E w \in 0..MaxWindow :
          call' = [fn |-> "WindowedSMA", window_size |-> w,
                   result |-> WindowedSMA_calculate(w, series)]
    /\ UNCHANGED <<series, mainVars>>

CallStockStatsNew ==
    /\ call' = [fn |-> "StockStats::new", result |-> StockStats_new("AAPL", series)]
    /\ UNCHANGED <<series, mainVars>>

SignalNext ==
    \/ CallMinPrice
    \/ CallMaxPrice
    \/ CallPriceDiff
    \/ CallWindowedSMA
    \/ CallStockStatsNew

SpecSignal == SignalInit /\ [][SignalNext]_vars

---------------------------------------------------------------------------
\* fetch_closing_data.

\* io::Result<T>.
Err == [ok |-> FALSE]
Ok(v) == [ok |-> TRUE, value |-> v]

\* Insertion of quote q before the first quote that is not older than it.
RECURSIVE InsertByTimestamp(_, _)
InsertByTimestamp(q, sorted) ==
    IF sorted = <<>> THEN <<q>>
    ELSE IF q.timestamp <= Head(sorted).timestamp THEN <<q>> \o sorted
    ELSE <<Head(sorted)>> \o InsertByTimestamp(q, Tail(sorted))

\* quotes.sort_by_cached_key(|q| q.timestamp): a stable ascending sort.
RECURSIVE SortByTimestamp(_)
SortByTimestamp(quotes) ==
    IF quotes = <<>> THEN <<>>
    ELSE InsertByTimestamp(Head(quotes), SortByTimestamp(Tail(quotes)))

\* `answer` is what the provider does with the request: get_quote_history
\* fails, response.quotes() fails, or the quotes arrive in the provider's order.
fetch_closing_data(symbol, answer) ==
    IF answer.kind = "history_err" THEN Err
    ELSE IF answer.kind = "quotes_err" THEN Err
    ELSE LET quotes == answer.quotes
             sorted == SortByTimestamp(quotes)
             closes == IF quotes = <<>> THEN <<>>
                       ELSE [i \in 1..Len(sorted) |-> sorted[i].adjclose]
         IN  Ok([symbol |-> symbol, closes |-> closes])

---------------------------------------------------------------------------
\* The report.

HeaderLine == [text |-> "period start,symbol,price,change %,min,max,30d avg"]

\* The --from argument and its rendering by DateTime::to_rfc3339.
from == "2020-01-01T00:00:00Z"
to_rfc3339(date) ==
    IF date = "2020-01-01T00:00:00Z" THEN "2020-01-01T00:00:00+00:00" ELSE date

\* format!("{:.2}", x): the sign, the whole part and the hundredths of the
\* nearest two-decimal number (ties to even), or the name of a non-finite value.
Fmt2(x) ==
    IF IsNaN(x) THEN [text |-> "NaN"]
    ELSE IF x = PosInf THEN [text |-> "inf"]
    ELSE IF x = NegInf THEN [text |-> "-inf"]
    ELSE LET scaled == 100 * Abs(x[1])
             q == scaled \div x[2]
             r == scaled % x[2]
             up == 2 * r > x[2] \/ (2 * r = x[2] /\ q % 2 = 1)
             h == IF up THEN q + 1 ELSE q
         IN  [text |-> "fixed", negative |-> x[1] < 0,
              whole |-> h \div 100, hundredths |-> h % 100]

ReportLine(stats) ==
    [period_start |-> to_rfc3339(from),
     symbol |-> stats.symbol,
     price |-> Fmt2(stats.last_price),
     change |-> Fmt2(stats.pct_change),
     min |-> Fmt2(stats.period_min),
     max |-> Fmt2(stats.period_max),
     avg |-> Fmt2(stats.thirty_day_avg)]

---------------------------------------------------------------------------
\* main.

DefaultSymbols == <<"AAPL", "MSFT", "UBER", "GOOG">>

SymbolLists ==
    {SubSeq(DefaultSymbols, 1, n) : n \in 1..MaxSymbols} \cup {<<"AAPL", "AAPL">>}

ClosePrice(day) == Fin(((day * 3) % 7) + 1)

DayOrders(n) == {p \in [1..n -> 1..n] : \A i, j \in 1..n : p[i] = p[j] => i = j}

QuotesOn(days) ==
    [i \in 1..Len(days) |-> [timestamp |-> days[i], adjclose |-> ClosePrice(days[i])]]

\* Up to MaxQuotes daily quotes in any order, and two histories that fill the
\* thirty-point window, one of them newest first.
QuoteSeqs ==
    {QuotesOn(p) : p \in UNION {DayOrders(n) : n \in 0..MaxQuotes}}
    \cup {QuotesOn([i \in 1..WINDOW_SIZE |-> WINDOW_SIZE + 1 - i]),
          QuotesOn([i \in 1..(WINDOW_SIZE + 1) |-> i])}

ProviderAnswers ==
    {[kind |-> "history_err"], [kind |-> "quotes_err"]}
    \cup {[kind |-> "ok", quotes |-> q] : q \in QuoteSeqs}

\* A future: not yet complete, or complete with its output.
Pending == [done |-> FALSE]
Ready(v) == [done |-> TRUE, output |-> v]

AllDone(tasks) == \A i \in 1..Len(tasks) : tasks[i].done

\* join_all over futures that completed in `order`, collected in completion
\* order.
JoinAllOutput_CompletionOrder(tasks, order) ==
    [k \in 1..Len(order) |-> tasks[order[k]].output]

\* join_all: the outputs in the order the futures were given.
JoinAllOutput(tasks, order) == [i \in 1..Len(tasks) |-> tasks[i].output]

IsOk(r) == r.ok

\* .filter_map(|r| r.ok()) replaced by an unwrap_or_default-like recovery.
Survivors_KeepErrors(histories) ==
    [i \in 1..Len(histories) |->
        IF histories[i].ok THEN histories[i].value
        ELSE [symbol |-> "", closes |-> <<>>]]

\* .into_iter().filter_map(|r| r.ok())
Survivors(histories) ==
    LET kept == SelectSeq(histories, IsOk)
    IN  [j \in 1..Len(kept) |-> kept[j].value]

NoSignalCall ==
    /\ series = <<>>
    /\ call = NoCall

\* main after the arguments are parsed and the fetch futures are handed to the
\* first join_all.
Init ==
    /\ NoSignalCall
    /\ symbols \in SymbolLists
    /\ pc = "fetch"
    /\ fetch_tasks = [i \in 1..Len(symbols) |-> Pending]
    /\ fetch_order = <<>>
    /\ stock_histories = <<>>
    /\ stats_tasks = <<>>
    /\ stats_order = <<>>
    /\ stock_stats = <<>>
    /\ stdout = <<>>
    /\ exit = "none"

\* One fetch future completes, with whatever the provider answered.
FetchComplete ==
    /\ pc = "fetch"
    /\ \E i \in 1..Len(symbols), answer \in ProviderAnswers :
          /\ ~fetch_tasks[i].done
          /\ fetch_tasks' = [fetch_tasks EXCEPT
                                ![i] = Ready(fetch_closing_data(symbols[i], answer))]
          /\ fetch_order' = Append(fetch_order, i)
    /\ UNCHANGED <<signalVars, symbols, pc, stock_histories, stats_tasks,
                   stats_order, stock_stats, stdout, exit>>

\* The first join_all returns and the statistics futures of the survivors are
\* handed to the second one; each carries the history it was built from.
JoinFetch_Early ==
    /\ pc = "fetch"
    /\ \E i \in 1..Len(fetch_tasks) : fetch_tasks[i].done
    /\ stock_histories' = SelectSeq(fetch_tasks, LAMBDA f : f.done)
    /\ stats_tasks' =
          [j \in 1..Len(SelectSeq(fetch_tasks, LAMBDA f : f.done /\ f.output.ok)) |->
              [done |-> FALSE,
               history |-> SelectSeq(fetch_tasks,
                                     LAMBDA f : f.done /\ f.output.ok)[j].output.value]]
    /\ pc' = "stats"
    /\ UNCHANGED <<signalVars, symbols, fetch_tasks, fetch_order, stats_order,
                   stock_stats, stdout, exit>>

JoinFetch ==
    /\ pc = "fetch"
    /\ AllDone(fetch_tasks)
    /\ stock_histories' = JoinAllOutput(fetch_tasks, fetch_order)
    /\ stats_tasks' =
          [j \in 1..Len(Survivors(stock_histories')) |->
              [done |-> FALSE, history |-> Survivors(stock_histories')[j]]]
    /\ pc' = "stats"
    /\ UNCHANGED <<signalVars, symbols, fetch_tasks, fetch_order, stats_order,
                   stock_stats, stdout, exit>>

\* The second join_all polls its futures in the order given; StockStats::new
\* awaits nothing that can be pending, so a future completes, or panics, at
\* its first poll.  A panic unwinds main.
StatsComplete ==
    /\ pc = "stats"
    /\ \E j \in 1..Len(stats_tasks) :
          /\ ~stats_tasks[j].done
          /\ \A k \in 1..(j - 1) : stats_tasks[k].done
          /\ LET h == stats_tasks[j].history
                 r == StockStats_new(h.symbol, h.closes)
             IN  IF r.panicked
                 THEN /\ pc' = "panicked"
                      /\ exit' = "panic"
                      /\ UNCHANGED <<stats_tasks, stats_order>>
                 ELSE /\ stats_tasks' = [stats_tasks EXCEPT
                                            ![j] = [done |-> TRUE,
                                                    history |-> h,
                                                    output |-> r.value]]
                      /\ stats_order' = Append(stats_order, j)
                      /\ UNCHANGED <<pc, exit>>
    /\ UNCHANGED <<signalVars, symbols, fetch_tasks, fetch_order, stock_histories,
                   stock_stats, stdout>>

JoinStats ==
    /\ pc = "stats"
    /\ AllDone(stats_tasks)
    /\ stock_stats' = JoinAllOutput(stats_tasks, stats_order)
    /\ pc' = "header"
    /\ UNCHANGED <<signalVars, symbols, fetch_tasks, fetch_order, stock_histories,
                   stats_tasks, stats_order, stdout, exit>>

PrintHeader ==
    /\ pc = "header"
    /\ stdout' = Append(stdout, HeaderLine)
    /\ pc' = "rows"
    /\ UNCHANGED <<signalVars, symbols, fetch_tasks, fetch_order, stock_histories,
                   stats_tasks, stats_order, stock_stats, exit>>

\* One turn of the for loop: stdout holds the header and one line per record
\* already visited.
PrintRow ==
    /\ pc = "rows"
    /\ Len(stdout) - 1 < Len(stock_stats)
    /\ stdout' = Append(stdout, ReportLine(stock_stats[Len(stdout)]))
    /\ UNCHANGED <<signalVars, symbols, pc, fetch_tasks, fetch_order,
                   stock_histories, stats_tasks, stats_order, stock_stats, exit>>

ReturnOk ==
    /\ pc = "rows"
    /\ Len(stdout) - 1 = Len(stock_stats)
    /\ pc' = "done"
    /\ exit' = "Ok"
    /\ UNCHANGED <<signalVars, symbols, fetch_tasks, fetch_order, stock_histories,
                   stats_tasks, stats_order, stock_stats, stdout>>

Next ==
    \/ FetchComplete
    \/ JoinFetch
    \/ StatsComplete
    \/ JoinStats
    \/ PrintHeader
    \/ PrintRow
    \/ ReturnOk

Spec == Init /\ [][Next]_vars

---------------------------------------------------------------------------
\* Properties of the signal calculations (checked under SpecSignal).

MeanOf(s) == FDiv(FoldSum(Zero, s), Fin(Len(s)))

NonNeg(n) == IF n < 0 THEN 0 ELSE n

\* C3, as stated: WindowedSMA.calculate returns None if and only if the
\* series is empty; on a non-empty series it returns a present result that is
\* the empty sequence when the series is shorter than w or w <= 1, and a
\* non-empty sequence otherwise.
C3_TrichotomyAsStated ==
    call.fn = "WindowedSMA" =>
        /\ call.result = None <=> series = <<>>
        /\ series # <<>> =>
              /\ IsSome(call.result)
              /\ Unwrap(call.result) = <<>>
                    <=> (Len(series) < call.window_size \/ call.window_size <= 1)

\* C3, amended: WindowedSMA.calculate returns None if and only if the series
\* is empty or w <= 1; on a non-empty series with w >= 2 it returns a present
\* result, the empty sequence when the series is shorter than w and a
\* non-empty sequence otherwise.
C3_Trichotomy ==
    call.fn = "WindowedSMA" =>
        /\ call.result = None <=> (series = <<>> \/ call.window_size <= 1)
        /\ (series # <<>> /\ call.window_size >= 2) =>
              /\ IsSome(call.result)
              /\ Unwrap(call.result) = <<>> <=> Len(series) < call.window_size

\* A non-empty series shorter than a window of two or more gave the present,
\* empty result.
C3_Witness ==
    /\ call.fn = "WindowedSMA"
    /\ series # <<>>
    /\ call.window_size >= 2
    /\ Len(series) < call.window_size
    /\ call.result = Some(<<>>)

\* C4, as stated: on every non-empty series and every w >= 1,
\* WindowedSMA.calculate returns a sequence of max(0, len - w + 1) averages.
C4_LengthAsStated ==
    (call.fn = "WindowedSMA" /\ series # <<>> /\ call.window_size >= 1) =>
        /\ IsSome(call.result)
        /\ Len(Unwrap(call.result)) = NonNeg(Len(series) - call.window_size + 1)

\* C4, amended: on every non-empty series and every w >= 2,
\* WindowedSMA.calculate returns a sequence of max(0, len - w + 1) values, the
\* i-th being the mean of the i-th contiguous sub-window of length w.
C4_Length ==
    (call.fn = "WindowedSMA" /\ series # <<>> /\ call.window_size >= 2) =>
        /\ IsSome(call.result)
        /\ Len(Unwrap(call.result)) = NonNeg(Len(series) - call.window_size + 1)
        /\ \A i \in 1..Len(Unwrap(call.result)) :
              Unwrap(call.result)[i]
                  = MeanOf(SubSeq(series, i, i + call.window_size - 1))

\* A series longer than the window gave more than one average.
C4_Witness ==
    /\ call.fn = "WindowedSMA"
    /\ call.window_size >= 2
    /\ Len(series) > call.window_size
    /\ IsSome(call.result)
    /\ Len(Unwrap(call.result)) = Len(series) - call.window_size + 1

\* C5: MinPrice.calculate and MaxPrice.calculate return None on an empty
\* series; on a non-empty series the minimum (maximum) is <= (>=) every
\* element and equal to some element.
C5_MinMax ==
    /\ call.fn = "MinPrice" =>
          IF series = <<>> THEN call.result = None
          ELSE /\ IsSome(call.result)
               /\ \A i \in 1..Len(series) : FLe(Unwrap(call.result), series[i])
               /\ \E i \in 1..Len(series) : Unwrap(call.result) = series[i]
    /\ call.fn = "MaxPrice" =>
          IF series = <<>> THEN call.result = None
          ELSE /\ IsSome(call.result)
               /\ \A i \in 1..Len(series) : FLe(series[i], Unwrap(call.result))
               /\ \E i \in 1..Len(series) : Unwrap(call.result) = series[i]

\* The absolute and relative difference the claim describes.
DiffOf(s) ==
    LET absolute == FSub(s[Len(s)], s[1])
    IN  <<absolute, IF s[1] = Zero THEN absolute ELSE FDiv(absolute, s[1])>>

\* C6, as stated: PriceDiff.calculate returns None on an empty series and
\* (last - first, relative) otherwise, so that every one-element series
\* yields (0.0, 0.0).
C6_DiffAsStated ==
    call.fn = "PriceDiff" =>
        /\ series = <<>> => call.result = None
        /\ series # <<>> => call.result = Some(DiffOf(series))
        /\ Len(series) = 1 => call.result = Some(<<Zero, Zero>>)

\* C6, amended: PriceDiff.calculate returns None on an empty series and
\* (last - first, relative) otherwise, relative being absolute / first when
\* first # 0 and absolute when first = 0, so that every one-element series
\* whose element is finite yields (0.0, 0.0).
C6_Diff ==
    call.fn = "PriceDiff" =>
        /\ series = <<>> => call.result = None
        /\ series # <<>> => call.result = Some(DiffOf(series))
        /\ (Len(series) = 1 /\ IsFinite(series[1])) =>
              call.result = Some(<<Zero, Zero>>)

\* A series starting at zero and ending elsewhere: relative = absolute.
C6_Witness ==
    /\ call.fn = "PriceDiff"
    /\ Len(series) >= 2
    /\ series[1] = Zero
    /\ IsFinite(series[Len(series)])
    /\ series[Len(series)] # Zero
    /\ call.result = Some(<<series[Len(series)], series[Len(series)]>>)

\* C7: on every non-empty series StockStats::new returns a record whose
\* last_price is the last element, whose pct_change is the relative part of
\* PriceDiff over the series, and whose thirty_day_avg is the mean of the
\* last 30 elements when there are at least 30, and 0.0 otherwise.
C7_Stats ==
    (call.fn = "StockStats::new" /\ series # <<>>) =>
        /\ ~call.result.panicked
        /\ call.result.value.last_price = series[Len(series)]
        /\ call.result.value.pct_change = DiffOf(series)[2]
        /\ call.result.value.thirty_day_avg
              = IF Len(series) >= 30
                THEN MeanOf(SubSeq(series, Len(series) - 29, Len(series)))
                ELSE Zero

\* A series of more than thirty points gave a non-zero thirty-day average.
C7_Witness ==
    /\ call.fn = "StockStats::new"
    /\ Len(series) > 30
    /\ ~call.result.panicked
    /\ call.result.value.thirty_day_avg # Zero
    /\ IsFinite(call.result.value.thirty_day_avg)

\* C10: on an empty series StockStats::new returns a record of neutral
\* defaults, last_price = 0.0 and thirty_day_avg = 0.0, and does not abort.
C10_EmptyDefaults ==
    (call.fn = "StockStats::new" /\ series = <<>>) =>
        /\ ~call.result.panicked
        /\ call.result.value.last_price = Zero
        /\ call.result.value.thirty_day_avg = Zero

---------------------------------------------------------------------------
\* Properties of the orchestrator (checked under Spec).

FetchedOk(i) == fetch_tasks[i].done /\ fetch_tasks[i].output.ok

FetchFailed(i) == fetch_tasks[i].done /\ ~fetch_tasks[i].output.ok

ClosesOf(i) == fetch_tasks[i].output.value.closes

\* The symbols whose fetch succeeded, in the order of the symbol list.
RECURSIVE SymbolsOkUpTo(_)
SymbolsOkUpTo(n) ==
    IF n = 0 THEN <<>>
    ELSE IF FetchedOk(n) THEN Append(SymbolsOkUpTo(n - 1), symbols[n])
    ELSE SymbolsOkUpTo(n - 1)

SymbolsOk == SymbolsOkUpTo(Len(symbols))

\* The symbols of the data rows printed so far, top to bottom.
RowSymbols == [k \in 1..(Len(stdout) - 1) |-> stdout[k + 1].symbol]

Count(seq, x) == Cardinality({k \in DOMAIN seq : seq[k] = x})

PositionOf(seq, x) == CHOOSE k \in DOMAIN seq : seq[k] = x

\* No fetch of the run succeeded with an empty series.
NoEmptyFetch == \A i \in 1..Len(symbols) : FetchedOk(i) => ClosesOf(i) # <<>>

\* C1: a fetch that succeeded with an empty series is filtered out before the
\* statistics stage, so no statistics future is ever built on zero data points.
C1_EmptyFiltered ==
    \A j \in 1..Len(stats_tasks) : stats_tasks[j].history.closes # <<>>

\* C2: when every fetch fails or succeeds with a non-empty series, main never
\* panics, and when it returns it returns Ok with the header followed by exactly one data row per symbol whose fetch
\* succeeded and none for a symbol whose fetch failed.
C2_Report ==
    NoEmptyFetch =>
        /\ pc # "panicked"
        /\ pc = "done" =>
              /\ exit = "Ok"
              /\ stdout[1] = HeaderLine
              /\ \A k \in 2..Len(stdout) : "symbol" \in DOMAIN stdout[k]
              /\ Len(stdout) = 1 + Len(SymbolsOk)
              /\ \A i \in 1..Len(symbols) :
                    Count(RowSymbols, symbols[i]) = Count(SymbolsOk, symbols[i])

\* Two symbols, one fetched with 31 points and one failed: main returned Ok
\* with the header and one data row.
C2_Witness ==
    /\ pc = "done"
    /\ exit = "Ok"
    /\ Len(symbols) = 2
    /\ \E i, j \in 1..2 :
          /\ FetchFailed(i)
          /\ FetchedOk(j)
          /\ Len(ClosesOf(j)) = 31
          /\ stdout = <<HeaderLine,
                        ReportLine(StockStats_new(symbols[j], ClosesOf(j)).value)>>

\* C8, as stated: the data rows appear in task completion order; when the
\* task of a later-listed symbol completes before the task of an earlier-listed
\* one, the later-listed symbol's row comes first.
C8_CompletionOrderAsStated ==
    pc = "done" =>
        \A i, j \in 1..Len(symbols) :
            ( /\ i < j
              /\ symbols[i] # symbols[j]
              /\ FetchedOk(i)
              /\ FetchedOk(j)
              /\ PositionOf(fetch_order, j) < PositionOf(fetch_order, i) )
            => PositionOf(RowSymbols, symbols[j]) < PositionOf(RowSymbols, symbols[i])

\* C8, amended: the data rows appear in the order of the symbol list,
\* restricted to the symbols whose fetch succeeded, whatever the order in
\* which the tasks completed.
C8_InputOrder ==
    /\ stdout # <<>> => RowSymbols = SubSeq(SymbolsOk, 1, Len(stdout) - 1)
    /\ pc = "done" => RowSymbols = SymbolsOk

\* The second symbol's fetch completed first and both rows were printed.
C8_Witness ==
    /\ pc = "done"
    /\ fetch_order = <<2, 1>>
    /\ symbols[1] # symbols[2]
    /\ RowSymbols = <<symbols[1], symbols[2]>>

\* C9: no statistics future exists or has run before every fetch future of the
\* run has completed, and nothing, the header included, is printed before
\* every statistics future of the run has completed.
C9_Barrier ==
    /\ (pc # "fetch" \/ stats_tasks # <<>> \/ stats_order # <<>>)
          => AllDone(fetch_tasks)
    /\ stdout # <<>> =>
          /\ AllDone(fetch_tasks)
          /\ Len(stats_tasks) = Len(SymbolsOk)
          /\ AllDone(stats_tasks)

\* The fetches completed out of order, both survived, and the second stage is
\* half way: one statistics future done, one pending, nothing printed.
C9_Witness ==
    /\ pc = "stats"
    /\ fetch_order = <<2, 1>>
    /\ Len(stats_tasks) = 2
    /\ stats_tasks[1].done
    /\ ~stats_tasks[2].done
    /\ stdout = <<>>

====
